---- MODULE Spec2Model ----
(***************************************************************************)
(* XEdDSA over X25519 keys (curve25519-dalek / x25519-dalek, Verus         *)
(* variants): clamping, private keys, signing and verification.            *)
(*                                                                         *)
(* Byte arrays are sequences of 0..255; Rust index i is TLA+ index i + 1.  *)
(* 256-bit and 512-bit integers are kept as little-endian byte strings,    *)
(* never as TLA+ integers, so every width of the program is the real one.  *)
(***************************************************************************)
EXTENDS Integers, Sequences, FiniteSets, TLC

VARIABLES
    variant,    \* which of the XEdDSA implementation files is the program
    key,        \* the PrivateKey object held by the caller (its secret bytes), or NoKey
    sig,        \* record of the last calculate_signature call, or None
    ver,        \* record of the last verify_signature call, or None
    fn_in,      \* input of the pure function applied (pure-function specifications)
    fn_out      \* its output, or None before the call

vars == << variant, key, sig, ver, fn_in, fn_out >>

\* the absent value (Option::None, no call made yet)
None == [ none |-> TRUE ]
\* no key constructed yet
NoKey == << >>

(***************************************************************************)
(* u8 arithmetic                                                           *)
(***************************************************************************)
Byte == 0..255

RECURSIVE BitAnd(_, _)
BitAnd(a, b) ==
    IF a = 0 \/ b = 0 THEN 0
    ELSE (a % 2) * (b % 2) + 2 * BitAnd(a \div 2, b \div 2)

RECURSIVE BitOr(_, _)
BitOr(a, b) ==
    IF a = 0 THEN b
    ELSE IF b = 0 THEN a
    ELSE (IF a % 2 = 1 \/ b % 2 = 1 THEN 1 ELSE 0) + 2 * BitOr(a \div 2, b \div 2)

RECURSIVE Pow2(_)
Pow2(n) == IF n = 0 THEN 1 ELSE 2 * Pow2(n - 1)

\* x >> n on a u8
Shr(x, n) == x \div Pow2(n)

\* bit n (0 = least significant) of a u8
Bit(x, n) == (x \div Pow2(n)) % 2

\* Rust's bytes[i] (0-based)
At(bytes, i) == bytes[i + 1]

\* bytes with bytes[i] = v (0-based)
Put(bytes, i, v) == [bytes EXCEPT ![i + 1] = v]

Fill(n, v) == SubSeq([i \in 1..n |-> v], 1, n)

\* n bytes start, start + step, ... (mod 256)
Ramp(n, start, step) == SubSeq([i \in 1..n |-> (start + (i - 1) * step) % 256], 1, n)

(***************************************************************************)
(* Lengths                                                                 *)
(***************************************************************************)
AGREEMENT_LENGTH == 32
PRIVATE_KEY_LENGTH == 32
PUBLIC_KEY_LENGTH == 32
SIGNATURE_LENGTH == 64

(***************************************************************************)
(* Natural numbers as little-endian byte strings                           *)
(***************************************************************************)

\* a >= b for byte strings of the same length, compared from the top byte
RECURSIVE GeFrom(_, _, _)
GeFrom(a, b, i) ==
    IF i = 0 THEN TRUE
    ELSE IF a[i] > b[i] THEN TRUE
    ELSE IF a[i] < b[i] THEN FALSE
    ELSE GeFrom(a, b, i - 1)

NatGe(a, b) == GeFrom(a, b, Len(a))
NatLt(a, b) == ~NatGe(a, b)

\* 2^k as an n-byte string
NatPow2(k, n) == SubSeq([i \in 1..n |-> IF i = (k \div 8) + 1 THEN Pow2(k % 8) ELSE 0], 1, n)

\* 256^e modulo a small m
RECURSIVE Pow256Mod(_, _)
Pow256Mod(e, m) == IF e = 0 THEN 1 % m ELSE (256 * Pow256Mod(e - 1, m)) % m

\* (sum of bytes[i] * 256^(i-1) for i in lo..hi) modulo a small m
RECURSIVE NatModRange(_, _, _, _)
NatModRange(bytes, lo, hi, m) ==
    IF lo = hi THEN (bytes[lo] * Pow256Mod(lo - 1, m)) % m
    ELSE LET mid == (lo + hi) \div 2
         IN (NatModRange(bytes, lo, mid, m) + NatModRange(bytes, mid + 1, hi, m)) % m

\* bytes_to_nat(bytes) mod m, for a small modulus m
NatMod(bytes, m) == NatModRange(bytes, 1, Len(bytes), m)

(***************************************************************************)
(* Clamping                                                                *)
(***************************************************************************)

\* a faulty clamp_integer that forgets `bytes[31] |= 64`
clamp_integer_keeps_bit254(bytes) ==
    LET b0 == Put(bytes, 0, BitAnd(At(bytes, 0), 248))
    IN Put(b0, 31, BitAnd(At(b0, 31), 127))

\* x25519-dalek/src/libsig_curve25519_verus.rs: clamp_integer
clamp_integer(bytes) ==
    LET b0 == Put(bytes, 0, BitAnd(At(bytes, 0), 248))
        b1 == Put(b0, 31, BitAnd(At(b0, 31), 127))
    IN Put(b1, 31, BitOr(At(b1, 31), 64))

\* a faulty clamp_integer that clears the low four bits of byte 0
scalar_clamp_integer_low_nibble(bytes) ==
    LET b0 == Put(bytes, 0, BitAnd(At(bytes, 0), 240))
        b1 == Put(b0, 31, BitAnd(At(b0, 31), 127))
    IN Put(b1, 31, BitOr(At(b1, 31), 64))

\* curve25519-dalek/src/scalar_verus.rs: clamp_integer
scalar_clamp_integer(bytes) ==
    LET b0 == Put(bytes, 0, BitAnd(At(bytes, 0), 248))      \* 0b1111_1000
        b1 == Put(b0, 31, BitAnd(At(b0, 31), 127))          \* 0b0111_1111
    IN Put(b1, 31, BitOr(At(b1, 31), 64))                   \* 0b0100_0000

(***************************************************************************)
(* Scalars: integers modulo the group order l, as 32 little-endian bytes   *)
(***************************************************************************)

\* constants::L, nine 29-bit limbs: 2^252 + 27742317777372353535851937790883648493
L_LIMBS == << 485872621, 9640146, 501691798, 502512965, 333, 0, 0, 0, 1048576 >>

\* bit j of a number held in 29-bit limbs
LimbBit(limbs, j) == (limbs[(j \div 29) + 1] \div Pow2(j % 29)) % 2

\* bits 8k .. 8k+7 of a number held in 29-bit limbs, as a byte
LimbByte(limbs, k) ==
    LimbBit(limbs, 8 * k) + 2 * LimbBit(limbs, 8 * k + 1)
    + 4 * LimbBit(limbs, 8 * k + 2) + 8 * LimbBit(limbs, 8 * k + 3)
    + 16 * LimbBit(limbs, 8 * k + 4) + 32 * LimbBit(limbs, 8 * k + 5)
    + 64 * LimbBit(limbs, 8 * k + 6) + 128 * LimbBit(limbs, 8 * k + 7)

\* the group order l as 32 bytes (the value of L_LIMBS, see LBytesAreLimbs)
L == << 237, 211, 245, 92, 26, 99, 18, 88, 214, 156, 247, 162, 222, 249, 222, 20,
        0, 0, 0, 0, 0, 0, 0, 0, 0, 0, 0, 0, 0, 0, 0, 16 >>

LBytesAreLimbs == \A i \in 1..32 : L[i] = LimbByte(L_LIMBS, i - 1)

Zeros(n) == Fill(n, 0)
Pad(a, n) == a \o Fill(n - Len(a), 0)

\* One carry pass: the digits of x + q * y (q may be negative), followed by the
\* final carry (0 when the result fits, negative when the result is negative).
RECURSIVE AddMulFrom(_, _, _, _, _, _)
AddMulFrom(x, y, q, i, carry, acc) ==
    IF i > Len(x) THEN Append(acc, carry)
    ELSE LET d == x[i] + q * y[i] + carry
             nacc == Append(acc, d % 256)
         IN IF Len(nacc) = i THEN AddMulFrom(x, y, q, i + 1, (d - (d % 256)) \div 256, nacc)
            ELSE <<>>

AddMul(x, y, q) == AddMulFrom(x, y, q, 1, 0, <<>>)

\* l as 34 bytes
L34 == << 237, 211, 245, 92, 26, 99, 18, 88, 214, 156, 247, 162, 222, 249, 222, 20,
          0, 0, 0, 0, 0, 0, 0, 0, 0, 0, 0, 0, 0, 0, 0, 16, 0, 0 >>

\* v mod l for a 34-byte v < 2^18 * l: the quotient estimate q = v >> 252 is the
\* quotient or one more, since l = 2^252 + c with q * c far below l.
ReduceStep(v) ==
    LET q == (v[32] \div 16) + 16 * v[33] + 4096 * v[34]
        w == AddMul(v, L34, -q)
    IN IF Len(v) # 34 THEN << >>
       ELSE IF w[35] = 0 THEN SubSeq(w, 1, 32)
       ELSE SubSeq(AddMul(SubSeq(w, 1, 34), L34, 1), 1, 32)

\* x mod l for 32 bytes x
ModL(x) == IF Len(x) = 32 THEN ReduceStep(Pad(x, 34)) ELSE << >>

\* Horner over the 16-bit digits lo..hi of x (digit k is bytes 2k-1, 2k), top first
RECURSIVE ModLRange(_, _, _, _)
ModLRange(x, lo, hi, acc) ==
    IF lo = hi THEN ReduceStep(<< x[2 * lo - 1], x[2 * lo] >> \o acc)
    ELSE LET mid == (lo + hi) \div 2
             top == ModLRange(x, mid + 1, hi, acc)
         IN IF Len(top) = 32 THEN ModLRange(x, lo, mid, top) ELSE <<>>

\* x mod l for 64 bytes x
ModLWide(x) == IF Len(x) = 64 THEN ModLRange(x, 1, 17, Pad(SubSeq(x, 35, 64), 32)) ELSE << >>

RECURSIVE MulModRange(_, _, _, _, _)
MulModRange(a, b, lo, hi, acc) ==
    IF lo = hi
    THEN ReduceStep(SubSeq(AddMul(<< 0, 0 >> \o acc, b, a[2 * lo - 1] + 256 * a[2 * lo]), 1, 34))
    ELSE LET mid == (lo + hi) \div 2
             top == MulModRange(a, b, mid + 1, hi, acc)
         IN IF Len(top) = 32 THEN MulModRange(a, b, lo, mid, top) ELSE <<>>

\* a * b mod l
MulMod(a, b) ==
    LET b34 == Pad(ModL(b), 34)
    IN IF Len(a) = 32 /\ Len(b34) = 34 THEN MulModRange(a, b34, 1, 16, Zeros(32)) ELSE << >>

\* a + b mod l
AddMod(a, b) ==
    IF Len(a) = 32 /\ Len(b) = 32
    THEN ReduceStep(SubSeq(AddMul(Pad(a, 34), Pad(b, 34), 1), 1, 34))
    ELSE << >>

\* -a mod l
NegMod(a) ==
    LET m == ModL(a)
    IN IF Len(m) = 32 THEN ModL(SubSeq(AddMul(L, m, -1), 1, 32)) ELSE << >>

(***************************************************************************)
(* SHA-512, an external collaborator: only its incremental interface is    *)
(* known. A hasher is the bytes absorbed so far; the digest is a fixed     *)
(* 64-byte function of them.                                               *)
(***************************************************************************)
sha512_new == << >>

sha512_update(hash, data) == hash \o data

\* sum of (x[j] + 1) * (w + j) for j in lo..hi, modulo 65521
RECURSIVE HashSum(_, _, _, _)
HashSum(x, w, lo, hi) ==
    IF lo > hi THEN 0
    ELSE IF lo = hi THEN ((x[lo] + 1) * (((w + lo) % 251) + 1)) % 65521
    ELSE LET mid == (lo + hi) \div 2
         IN (HashSum(x, w, lo, mid) + HashSum(x, w, mid + 1, hi)) % 65521

sha512_finalize(hash) ==
    LET s1 == HashSum(hash, 0, 1, Len(hash))
        s2 == HashSum(hash, 97, 1, Len(hash))
    IN IF s1 + s2 < 0 THEN << >>
       ELSE SubSeq([i \in 1..64 |->
                       (s1 * (2 * i + 1) + s2 * (i + 5) + (s1 \div 256) + 29 * i * i) % 256],
                   1, 64)

(***************************************************************************)
(* Scalar (curve25519_dalek::scalar::Scalar): its 32 bytes                 *)
(***************************************************************************)
scalar_from_bytes_mod_order(bytes) == ModL(bytes)

scalar_from_hash(hash) ==
    LET digest == sha512_finalize(hash)
    IN IF Len(digest) = 64 THEN ModLWide(digest) ELSE << >>

scalar_as_bytes(scalar) == scalar

scalar_mul(a, b) == MulMod(a, b)

scalar_add(a, b) == AddMod(a, b)

(***************************************************************************)
(* The group. A point of the prime-order subgroup is named by its          *)
(* discrete logarithm to the basepoint B: Point(d) is d*B, 0 <= d < l.     *)
(* A point P and -P share the Edwards y and the Montgomery u; the sign of  *)
(* x tells them apart. Writing m for the smaller of d and l - d:           *)
(*   y = m + 1 (the identity has y = 1), sign = 1 iff d is the larger one, *)
(*   u = 2 * m (the identity maps to u = 0); odd u are not on the curve.   *)
(***************************************************************************)
Point(d) == [log |-> d]

One32 == << 1 >> \o Fill(31, 0)

\* the smaller of d and l - d
Fold(d) == LET nd == NegMod(d) IN IF NatGe(nd, d) THEN d ELSE nd

scalar_basepoint_mul(scalar) == Point(ModL(scalar))

edwards_negate(point) == Point(NegMod(point.log))

\* a * A + b * B
edwards_vartime_double_scalar_mul_basepoint(a, point_a, b) ==
    Point(AddMod(MulMod(a, point_a.log), ModL(b)))

\* CompressedEdwardsY: y with the sign of x in bit 7 of byte 31
edwards_compress(point) ==
    LET nd == NegMod(point.log)
        larger == ~ NatGe(nd, point.log)
        y == SubSeq(AddMul(IF larger THEN nd ELSE point.log, One32, 1), 1, 32)
    IN Put(y, 31, At(y, 31) + (IF larger THEN 128 ELSE 0))

compressed_edwards_as_bytes(compressed) == compressed

\* x with bit 0 shifted out: floor(x / 2)
Half(x) == SubSeq([i \in 1..32 |-> (x[i] \div 2) + (IF i < 32 THEN 128 * (x[i + 1] % 2) ELSE 0)],
                  1, 32)

\* 2 * x for x < 2^255
Double(x) == SubSeq(AddMul(x, x, 1), 1, 32)

\* the Montgomery u-coordinate of a point
MontgomeryU(point) == Double(Fold(point.log))

montgomery_point_new(bytes) == bytes

\* MontgomeryPoint::to_edwards(sign): bit 255 of u is ignored; the sign argument
\* is shifted into bit 7 of a u8 (sign << 7), so only its bit 0 counts.
montgomery_to_edwards(point, sign) ==
    LET u == Put(point, 31, At(point, 31) % 128)
        m == Half(u)
        s == ((sign * 128) % 256) \div 128
    IN IF u[1] % 2 = 1 \/ NatGe(m, L) \/ Fold(m) # m THEN None
       ELSE IF s = 1 THEN Point(NegMod(m)) ELSE Point(m)

constant_time_eq(a, b) == a = b

(***************************************************************************)
(* x25519 StaticSecret / PublicKey / SharedSecret                          *)
(***************************************************************************)
static_secret_from_bytes(bytes) == bytes

static_secret_to_bytes(secret) == secret

\* PublicKey::from(&StaticSecret): the u-coordinate of clamp(secret) * B
public_key_from_static_secret(secret) ==
    MontgomeryU(Point(ModL(scalar_clamp_integer(secret))))

public_key_as_bytes(pubkey) == pubkey

public_key_from_bytes(bytes) == bytes

(***************************************************************************)
(* The XEdDSA key type. The repository holds the same API three times:     *)
(*   LIBSIG  x25519-dalek/src/libsig_curve25519_verus.rs (fully            *)
(*           implemented),                                                 *)
(*   VERUS   backend/serial/u64/curve25519_verus.rs and its copy           *)
(*           curve25519_verus_new.rs (placeholder public key),             *)
(*   BACKUP  backend/serial/u64/curve25519_verus_backup.rs (placeholder    *)
(*           verification, no clamping in From).                           *)
(* A PrivateKey is its StaticSecret.                                       *)
(***************************************************************************)
LIBSIG == "libsig_curve25519_verus"
VERUS == "curve25519_verus"
BACKUP == "curve25519_verus_backup"
Variants == { LIBSIG, VERUS, BACKUP }

\* PrivateKey::new: 32 random bytes, clamped
PrivateKey_new(v, random) == static_secret_from_bytes(clamp_integer(random))

\* impl From<[u8; 32]> for PrivateKey in BACKUP: the clamping line is commented out
backup_from(private_key) == static_secret_from_bytes(private_key)

\* impl From<[u8; 32]> for PrivateKey
PrivateKey_from(v, private_key) ==
    IF v = BACKUP THEN backup_from(private_key)
    ELSE static_secret_from_bytes(clamp_integer(private_key))

\* impl Clone for PrivateKey
PrivateKey_clone(v, secret) == static_secret_from_bytes(static_secret_to_bytes(secret))

private_key_bytes(v, secret) == static_secret_to_bytes(secret)

\* PublicKey::from(&StaticSecret) in VERUS and BACKUP: a placeholder
placeholder_public_key(secret) == Zeros(PUBLIC_KEY_LENGTH)

\* a faulty derive_public_key_bytes: the placeholder public key in every file
derive_public_key_bytes_placeholder(v, secret) ==
    public_key_as_bytes(placeholder_public_key(secret))

derive_public_key_bytes(v, secret) ==
    IF v = LIBSIG THEN public_key_as_bytes(public_key_from_static_secret(secret))
    ELSE public_key_as_bytes(placeholder_public_key(secret))

hash_prefix == << 254 >> \o Fill(31, 255)

\* a faulty loop that absorbs nothing
UpdatePieces_none(hash, message, i) == hash

\* a faulty loop that absorbs no piece after the first
UpdatePieces_first_only(hash, message, i) ==
    IF i >= Len(message) THEN hash ELSE sha512_update(hash, message[i + 1])

\* the loop `while i < message.len() { sha512_update(hash, message[i]) }`
RECURSIVE UpdatePieces(_, _, _)
UpdatePieces(hash, message, i) ==
    IF i >= Len(message) THEN hash
    ELSE UpdatePieces(sha512_update(hash, message[i + 1]), message, i + 1)

\* fill_bytes(csprng, &mut random_bytes): the sizes of the requests it makes
fill_bytes(n) == << n >>

\* random_u8(csprng): one request for one byte
random_u8 == << 1 >>

\* the loop `while i < 64 { random_bytes[i] = random_u8(csprng) }` of VERUS and BACKUP
RECURSIVE random_u8_loop(_)
random_u8_loop(n) ==
    IF n = 0 THEN << >>
    ELSE IF n = 1 THEN random_u8
    ELSE random_u8_loop(n \div 2) \o random_u8_loop(n - (n \div 2))

\* the requests calculate_signature makes to the random source, in order
SignRequests(v) == IF v = LIBSIG THEN fill_bytes(64) ELSE random_u8_loop(64)

\* the hasher hash1 of calculate_signature when it is finalized
nonce_hash(key_data, message, random_bytes) ==
    sha512_update(
        UpdatePieces(sha512_update(sha512_update(sha512_new, hash_prefix), key_data),
                     message, 0),
        random_bytes)

\* the hasher `hash` of calculate_signature when it is finalized
sign_challenge_hash(cap_r, ed_public_key, message) ==
    UpdatePieces(sha512_update(sha512_update(sha512_new, compressed_edwards_as_bytes(cap_r)),
                               compressed_edwards_as_bytes(ed_public_key)),
                 message, 0)

\* a faulty result array that forgets `last |= sign_bit`
signature_bytes_without_sign(cap_r, s, sign_bit) ==
    LET result == compressed_edwards_as_bytes(cap_r) \o scalar_as_bytes(s)
    IN Put(result, SIGNATURE_LENGTH - 1, BitAnd(At(result, SIGNATURE_LENGTH - 1), 127))

\* a faulty result array with the sign bit written two bits too low
signature_bytes_sign_in_bit5(cap_r, s, sign_bit) ==
    LET result == compressed_edwards_as_bytes(cap_r) \o scalar_as_bytes(s)
        last == BitOr(BitAnd(At(result, SIGNATURE_LENGTH - 1), 127), sign_bit \div 4)
    IN Put(result, SIGNATURE_LENGTH - 1, last)

\* the result array of calculate_signature: R, s, and the sign bit in the last byte
signature_bytes(cap_r, s, sign_bit) ==
    LET result == compressed_edwards_as_bytes(cap_r) \o scalar_as_bytes(s)
        last == BitOr(BitAnd(At(result, SIGNATURE_LENGTH - 1), 127), sign_bit)
    IN Put(result, SIGNATURE_LENGTH - 1, last)

\* calculate_signature; random_bytes is what the random source delivered.
\* The record holds the returned signature and scalar s, the requests made to
\* the random source, and the intermediate values of the run.
calculate_signature(v, secret, message, random_bytes) ==
    LET key_data == static_secret_to_bytes(secret)
        a == scalar_from_bytes_mod_order(key_data)
        ed_public_key_point == scalar_basepoint_mul(a)
        ed_public_key == edwards_compress(ed_public_key_point)
        sign_bit == BitAnd(At(compressed_edwards_as_bytes(ed_public_key), 31), 128)
        hash1 == nonce_hash(key_data, message, random_bytes)
        r == scalar_from_hash(hash1)
        cap_r == edwards_compress(scalar_basepoint_mul(r))
        hash == sign_challenge_hash(cap_r, ed_public_key, message)
        h == scalar_from_hash(hash)
        s == scalar_add(scalar_mul(h, a), r)
    IN IF ~ ( /\ Len(a) = 32 /\ Len(ed_public_key) = 32 /\ Len(hash1) >= 96
              /\ Len(r) = 32 /\ Len(cap_r) = 32 /\ Len(hash) >= 64
              /\ Len(h) = 32 /\ Len(s) = 32 )
       THEN None
       ELSE
       [ result |-> signature_bytes(cap_r, s, sign_bit),
         s |-> s,
         requests |-> SignRequests(v),
         message |-> message,
         random_bytes |-> random_bytes,
         key_data |-> key_data,
         a |-> a,
         ed_public_key |-> ed_public_key,
         sign_bit |-> sign_bit,
         hash1 |-> hash1,
         r |-> r,
         cap_r |-> cap_r,
         hash |-> hash,
         h |-> h ]

\* a faulty sign argument that forgets `>> 7`
sign_argument_unshifted(signature) == BitAnd(At(signature, SIGNATURE_LENGTH - 1), 128)

\* the sign argument verify_signature hands to montgomery_to_edwards
sign_argument(signature) == Shr(BitAnd(At(signature, SIGNATURE_LENGTH - 1), 128), 7)

\* the array cap_r of verify_signature: signature bytes 0..31
signature_cap_r(signature) == SubSeq(signature, 1, 32)

\* a faulty s that keeps bit 7 of the last byte
signature_s_unmasked(signature) == SubSeq(signature, 33, 64)

\* the array s of verify_signature: signature bytes 32..63, top bit cleared
signature_s(signature) ==
    LET s == SubSeq(signature, 33, 64)
    IN Put(s, 31, BitAnd(At(s, 31), 127))

\* a faulty range test with the mask 0b1100_0000
s_out_of_range_two_bits(s) == BitAnd(At(s, 31), 192) # 0

\* the test `(s[31] & 0b1110_0000) != 0` that rejects the signature
s_out_of_range(s) == BitAnd(At(s, 31), 224) # 0

\* a faulty verifier hasher that absorbs A before R
verify_challenge_hash_a_first(cap_r, cap_a, message) ==
    UpdatePieces(sha512_update(sha512_update(sha512_new, compressed_edwards_as_bytes(cap_a)),
                               cap_r),
                 message, 0)

\* the hasher `hash` of verify_signature when it is finalized
verify_challenge_hash(cap_r, cap_a, message) ==
    UpdatePieces(sha512_update(sha512_update(sha512_new, cap_r),
                               compressed_edwards_as_bytes(cap_a)),
                 message, 0)

\* a faulty cap_r_check that uses A where -A belongs
verify_check_without_negate(h, ed_pub_key_point, s) ==
    edwards_compress(
        edwards_vartime_double_scalar_mul_basepoint(
            h, ed_pub_key_point, scalar_from_bytes_mod_order(s)))

\* cap_r_check of verify_signature
verify_check(h, ed_pub_key_point, s) ==
    LET minus_cap_a == edwards_negate(ed_pub_key_point)
        cap_r_check_point ==
            edwards_vartime_double_scalar_mul_basepoint(
                h, minus_cap_a, scalar_from_bytes_mod_order(s))
    IN IF Len(minus_cap_a.log) = 32 /\ Len(cap_r_check_point.log) = 32
       THEN edwards_compress(cap_r_check_point)
       ELSE << >>

\* what verify_signature leaves behind when it returns early
Rejected(pk, message, signature, calls, sign, cap_a, s) ==
    [ result |-> FALSE, calls |-> calls, their_public_key |-> pk, message |-> message,
      signature |-> signature, sign |-> sign, cap_a |-> cap_a, s |-> s, hash |-> << >>,
      h |-> << >>, cap_r_check |-> << >> ]

\* verify_signature in BACKUP: a placeholder that returns false
backup_verify_signature(their_public_key, message, signature) ==
    Rejected(their_public_key, message, signature, << >>, -1, << >>, << >>)

\* verify_signature. The record holds the returned boolean, the external
\* operations called in order, and the intermediate values of the run
\* (sign is -1 and the byte strings are empty where the run did not get there).
verify_signature(v, their_public_key, message, signature) ==
    IF v = BACKUP
    THEN backup_verify_signature(their_public_key, message, signature)
    ELSE
    LET mont_point == montgomery_point_new(their_public_key)
        sign == sign_argument(signature)
        ed_pub_key_point == montgomery_to_edwards(mont_point, sign)
    IN IF ed_pub_key_point = None
       THEN Rejected(their_public_key, message, signature,
                     << "montgomery_to_edwards" >>, sign, << >>, << >>)
       ELSE
       LET cap_a == edwards_compress(ed_pub_key_point)
           cap_r == signature_cap_r(signature)
           s == signature_s(signature)
       IN IF s_out_of_range(s)
          THEN Rejected(their_public_key, message, signature,
                        << "montgomery_to_edwards", "edwards_compress" >>, sign, cap_a, s)
          ELSE
          LET hash == verify_challenge_hash(cap_r, cap_a, message)
              h == scalar_from_hash(hash)
              cap_r_check == verify_check(h, ed_pub_key_point, s)
          IN IF ~ ( /\ Len(cap_a) = 32 /\ Len(hash) >= 64 /\ Len(h) = 32
                    /\ Len(cap_r_check) = 32 )
             THEN None
             ELSE
             [ result |-> constant_time_eq(compressed_edwards_as_bytes(cap_r_check), cap_r),
               calls |-> << "montgomery_to_edwards", "edwards_compress", "edwards_negate",
                            "scalar_from_hash",
                            "edwards_vartime_double_scalar_mul_basepoint",
                            "edwards_compress", "constant_time_eq" >>,
               their_public_key |-> their_public_key,
               message |-> message,
               signature |-> signature,
               sign |-> sign,
               cap_a |-> cap_a,
               s |-> s,
               hash |-> hash,
               h |-> h,
               cap_r_check |-> cap_r_check ]

(***************************************************************************)
(* Inputs                                                                  *)
(***************************************************************************)
\* number of distinct 32-byte strings offered as key material
NumKeyInputs == 2
\* number of distinct 64-byte strings the random source may deliver to a signature
NumRandoms == 2

\* the i-th 32-byte string: KeyInput(1) is 32 times 0xFF
KeyInput(i) == Ramp(32, 256 - i, 37 * (i - 1))
KeyInputs == { KeyInput(i) : i \in 1..NumKeyInputs }

RandomInput(j) == Ramp(64, 11 * j, j + 1)
Randoms == { RandomInput(j) : j \in 1..NumRandoms }

\* messages as sequences of pieces
Messages == { << >>, << << 1, 2 >> >>, << << 1 >>, << 2 >> >> }

\* the X25519 public key that belongs to 32 bytes of key material
X25519Public(bytes) == public_key_as_bytes(public_key_from_static_secret(bytes))

\* a public key that is not the u-coordinate of a point
BadPublicKey == One32

\* What a holder of a signature may do to it before handing it to
\* verify_signature: nothing; add 2l or 4l to s (the same s modulo l, with bit 5
\* or bit 6 of byte 63 set); flip the sign bit; change R.
Tampers == { "asis", "s_plus_2l", "s_plus_4l", "bit7", "r" }

\* the signature with q * l added to its s, the sign bit kept
AddToS(signature, q) ==
    LET s == SubSeq(signature, 33, 64)
        sign_bit == BitAnd(At(s, 31), 128)
        t == SubSeq(AddMul(Put(s, 31, At(s, 31) - sign_bit), L, q), 1, 32)
    IN SubSeq(signature, 1, 32) \o Put(t, 31, At(t, 31) + sign_bit)

Tamper(signature, t) ==
    CASE t = "asis" -> signature
      [] t = "s_plus_2l" -> AddToS(signature, 2)
      [] t = "s_plus_4l" -> AddToS(signature, 4)
      [] t = "bit7" -> Put(signature, 63, (At(signature, 63) + 128) % 256)
      [] t = "r" -> Put(signature, 0, (At(signature, 0) + 1) % 256)

(***************************************************************************)
(* The state machine: one key holder, one signature, one verification      *)
(***************************************************************************)
Init ==
    /\ variant \in Variants
    /\ key = NoKey
    /\ sig = None
    /\ ver = None
    /\ fn_in = None
    /\ fn_out = None

\* PrivateKey::new(csprng): the random source delivers `random`
New(random) ==
    /\ key' = PrivateKey_new(variant, random)
    /\ sig' = None
    /\ ver' = None
    /\ UNCHANGED << variant, fn_in, fn_out >>

\* PrivateKey::from(private_key)
From(private_key) ==
    /\ key' = PrivateKey_from(variant, private_key)
    /\ sig' = None
    /\ ver' = None
    /\ UNCHANGED << variant, fn_in, fn_out >>

\* key.clone() takes the place of key
Clone ==
    /\ key # NoKey
    /\ key' = PrivateKey_clone(variant, key)
    /\ UNCHANGED << variant, sig, ver, fn_in, fn_out >>

\* key.calculate_signature(csprng, message); one signature is kept per key
Sign(message, random_bytes) ==
    /\ key # NoKey
    /\ sig = None
    /\ sig' = calculate_signature(variant, key, message, random_bytes)
    /\ ver' = None
    /\ UNCHANGED << variant, key, fn_in, fn_out >>

\* PrivateKey::verify_signature(their_public_key, message, signature) on the
\* signature at hand, possibly tampered with; one verification is kept
Verify(their_public_key, message, t) ==
    /\ sig # None
    /\ ver = None
    /\ ver' = verify_signature(variant, their_public_key, message, Tamper(sig.result, t))
    /\ UNCHANGED << variant, key, sig, fn_in, fn_out >>

\* the public keys offered to verify_signature
PublicKeys ==
    { X25519Public(b) : b \in KeyInputs }
        \cup { BadPublicKey }
        \cup (IF key = NoKey THEN { } ELSE { derive_public_key_bytes(variant, key) })

Next ==
    \/ \E random \in KeyInputs : New(random)
    \/ \E private_key \in KeyInputs : From(private_key)
    \/ Clone
    \/ \E message \in Messages, random_bytes \in Randoms : Sign(message, random_bytes)
    \/ \E their_public_key \in PublicKeys, message \in Messages, t \in Tampers :
           Verify(their_public_key, message, t)

Spec == Init /\ [][Next]_vars

(***************************************************************************)
(* clamp_integer as a pure function: byte 0 takes every value, byte 31     *)
(* the values 0x00, 0x11, .., 0xFF (every value of each nibble, so every   *)
(* value of its bits 6 and 7), the other bytes are all 0x00 or all 0xFF    *)
(***************************************************************************)
ClampInput(b0, b31, fill) == << b0 >> \o Fill(30, fill) \o << b31 >>

ClampInputs ==
    { ClampInput(b0, 17 * n, fill) : b0 \in Byte, n \in 0..15, fill \in { 0, 255 } }

InitClamp ==
    /\ variant = LIBSIG
    /\ key = NoKey
    /\ sig = None
    /\ ver = None
    /\ fn_in \in ClampInputs
    /\ fn_out = None

\* libsig_curve25519_verus.rs clamp_integer(fn_in)
ApplyClampInteger ==
    /\ fn_out = None
    /\ fn_out' = [ fn |-> "clamp_integer", out |-> clamp_integer(fn_in) ]
    /\ UNCHANGED << variant, key, sig, ver, fn_in >>

\* scalar_verus.rs clamp_integer(fn_in)
ApplyScalarClampInteger ==
    /\ fn_out = None
    /\ fn_out' = [ fn |-> "scalar::clamp_integer", out |-> scalar_clamp_integer(fn_in) ]
    /\ UNCHANGED << variant, key, sig, ver, fn_in >>

NextClamp == ApplyClampInteger \/ ApplyScalarClampInteger

SpecClamp == InitClamp /\ [][NextClamp]_vars

(***************************************************************************)
(* Claims                                                                  *)
(***************************************************************************)

\* C1: for every 32-byte input b, the little-endian value v of clamp_integer(b)
\* satisfies 2^254 <= v < 2^255 and v mod 8 = 0 (both copies of clamp_integer).
C1_ClampRange ==
    fn_out # None =>
        /\ Len(fn_out.out) = 32
        /\ NatGe(fn_out.out, NatPow2(254, 32))
        /\ NatLt(fn_out.out, NatPow2(255, 32))
        /\ NatMod(fn_out.out, 8) = 0

\* C1 witness: clamp_integer has been applied to 32 bytes 0xFF, whose value is
\* above 2^255 and odd, and returned something else
C1_Witness ==
    /\ fn_out # None
    /\ fn_out.fn = "clamp_integer"
    /\ fn_in = Fill(32, 255)
    /\ fn_out.out # fn_in

\* the bit pattern clamping leaves: low 3 bits of byte 0 clear, bit 7 of byte 31
\* clear, bit 6 of byte 31 set
IsClamped(bytes) ==
    /\ BitAnd(At(bytes, 0), 7) = 0
    /\ Bit(At(bytes, 31), 7) = 0
    /\ Bit(At(bytes, 31), 6) = 1

\* C2: every PrivateKey obtainable through new, From<[u8; 32]> and clone, in any
\* sequence, holds clamped bytes: private_key_bytes() has the low 3 bits of byte 0
\* clear, bit 7 of byte 31 clear and bit 6 of byte 31 set.
C2_KeysAreClamped == key # NoKey => IsClamped(private_key_bytes(variant, key))

\* the pieces of a message, concatenated
RECURSIVE Concat(_)
Concat(message) == IF message = << >> THEN << >> ELSE Head(message) \o Concat(Tail(message))

\* verify_signature has been given the signature calculate_signature returned,
\* the same message pieces, and the public key derive_public_key_bytes returns
SignedThenVerified ==
    /\ sig # None
    /\ ver # None
    /\ ver.signature = sig.result
    /\ ver.message = sig.message
    /\ ver.their_public_key = derive_public_key_bytes(variant, key)

\* C3: sign-then-verify succeeds in libsig_curve25519_verus.rs: for every key,
\* message and randomness, verify_signature(k.derive_public_key_bytes(), M, sig)
\* returns true for the sig that calculate_signature produced for k and M.
C3_SignThenVerify == (variant = LIBSIG /\ SignedThenVerified) => ver.result = TRUE

\* C3 witness: a signature over a two-piece message, made with a key whose
\* Edwards public key has sign bit 1, has been verified and accepted
C3_Witness ==
    /\ variant = LIBSIG
    /\ SignedThenVerified
    /\ sig.sign_bit = 128
    /\ Len(sig.message) = 2
    /\ ver.result = TRUE

\* bit 7 of signature byte 63
SignatureSignBit(signature) == Bit(At(signature, 63), 7)

\* the Edwards point the public key converts to with the signature's sign bit, or None
DecodedKey(their_public_key, signature) ==
    montgomery_to_edwards(montgomery_point_new(their_public_key), SignatureSignBit(signature))

\* signature bytes 32..63 with the top bit cleared
ScalarPart(signature) ==
    LET s == SubSeq(signature, 33, 64)
    IN Put(s, 31, At(s, 31) % 128)

\* the compressed encoding of h * (-A) + s * B, h the hash of R, A, M reduced mod l
ExpectedCheck(point_a, message, signature) ==
    LET cap_r == SubSeq(signature, 1, 32)
        h == ModLWide(sha512_finalize(cap_r \o edwards_compress(point_a) \o Concat(message)))
        s == ModL(ScalarPart(signature))
        minus_a == NegMod(point_a.log)
        ha == IF Len(h) = 32 /\ Len(minus_a) = 32 THEN MulMod(h, minus_a) ELSE << >>
    IN IF Len(ha) = 32 /\ Len(s) = 32 THEN edwards_compress(Point(AddMod(ha, s))) ELSE << >>

\* C4: when the public key converts to an Edwards point A and s (signature bytes
\* 32..63, top bit cleared) is below 2^253, verify_signature returns true if and
\* only if the compressed encoding of h*(-A) + s*B equals signature bytes 0..31
\* (libsig_curve25519_verus.rs and curve25519_verus.rs).
C4_AcceptIffCheckMatches ==
    (variant # BACKUP /\ ver # None) =>
        LET point_a == DecodedKey(ver.their_public_key, ver.signature)
        IN (point_a # None /\ At(ScalarPart(ver.signature), 31) < 32) =>
               (ver.result = TRUE <=>
                    ExpectedCheck(point_a, ver.message, ver.signature)
                        = SubSeq(ver.signature, 1, 32))

\* C4 witness: a signature whose R was changed has gone through the whole
\* verification, with a decodable key and s in range, and was refused
C4_Witness ==
    /\ variant # BACKUP
    /\ ver # None
    /\ DecodedKey(ver.their_public_key, ver.signature) # None
    /\ At(ScalarPart(ver.signature), 31) < 32
    /\ SubSeq(ver.signature, 1, 32) # sig.cap_r
    /\ Len(ver.cap_r_check) = 32
    /\ ver.result = FALSE

\* C5: verify_signature returns false for every signature whose byte 63 has bit 6
\* or bit 5 set, whatever the public key, the message and the other bytes are.
C5_HighBitsRejected ==
    (ver # None /\ (Bit(At(ver.signature, 63), 6) = 1 \/ Bit(At(ver.signature, 63), 5) = 1))
        => ver.result = FALSE

\* C5 witness: an honest signature with 2l added to s (the same s modulo l, bit 5
\* of byte 63 set) has been offered with the right key and message and refused
C5_Witness ==
    /\ variant = LIBSIG
    /\ ver # None
    /\ ver.signature = AddToS(sig.result, 2)
    /\ Bit(At(ver.signature, 63), 5) = 1
    /\ ver.message = sig.message
    /\ ver.their_public_key = derive_public_key_bytes(variant, key)
    /\ ver.result = FALSE

\* C6: verify_signature hands montgomery_to_edwards bit 7 of signature byte 63 as
\* 0 or 1, and when that conversion of the public key returns None it returns
\* false without going on (no point stands in for the undecodable key).
C6_FailsClosedOnBadKey ==
    (variant # BACKUP /\ ver # None) =>
        /\ ver.sign = SignatureSignBit(ver.signature)
        /\ DecodedKey(ver.their_public_key, ver.signature) = None =>
               /\ ver.result = FALSE
               /\ ver.calls = << "montgomery_to_edwards" >>
               /\ ver.cap_a = << >>

\* C6 witness: a signature with sign bit 1 has been verified against a public key
\* that is no u-coordinate, and was refused
C6_Witness ==
    /\ variant # BACKUP
    /\ ver # None
    /\ ver.their_public_key = BadPublicKey
    /\ SignatureSignBit(ver.signature) = 1
    /\ ver.sign = 1
    /\ ver.result = FALSE

\* C7: in the signature calculate_signature returns, bytes 0..31 are the
\* compressed R = r*B, bytes 32..62 are bytes 0..30 of s = h*a + r mod l, the low
\* 7 bits of byte 63 are those of byte 31 of s, and bit 7 of byte 63 is bit 7 of
\* byte 31 of the compressed A = a*B. (Stated of the state the call leaves; later
\* calls leave sig unchanged.)
C7_SignatureLayout ==
    (sig # None /\ ver = None) =>
        LET cap_r == edwards_compress(Point(ModL(sig.r)))
            s == AddMod(MulMod(sig.h, sig.a), sig.r)
            cap_a == edwards_compress(Point(ModL(sig.a)))
        IN /\ Len(sig.result) = SIGNATURE_LENGTH
           /\ SubSeq(sig.result, 1, 32) = cap_r
           /\ SubSeq(sig.result, 33, 63) = SubSeq(s, 1, 31)
           /\ At(sig.result, 63) % 128 = At(s, 31) % 128
           /\ Bit(At(sig.result, 63), 7) = Bit(At(cap_a, 31), 7)
           /\ sig.s = s

\* C7 witness: a signature has been returned whose byte 63 carries sign bit 1
C7_Witness ==
    /\ sig # None
    /\ ver = None
    /\ Bit(At(sig.result, 63), 7) = 1
    /\ Bit(At(sig.ed_public_key, 31), 7) = 1

\* C8: the nonce r is the hash, reduced mod l, of the prefix (0xFE, 31 times
\* 0xFF), the 32-byte encoding of the private scalar a (the key reduced mod l),
\* the message pieces in order, then the 64 random bytes Z.
C8_NonceHashesScalar ==
    sig # None =>
        /\ sig.hash1 = hash_prefix \o scalar_as_bytes(sig.a) \o Concat(sig.message)
                           \o sig.random_bytes
        /\ sig.r = scalar_from_hash(sig.hash1)

\* verify_signature has been given the signature calculate_signature returned,
\* the same message pieces, and the X25519 public key of the signing key
HonestlyVerified ==
    /\ sig # None
    /\ ver # None
    /\ ver.signature = sig.result
    /\ ver.message = sig.message
    /\ ver.their_public_key = X25519Public(key)

\* C9: signer and verifier feed the challenge hash the same byte sequence, the
\* 32 bytes of compressed R, the 32 bytes of compressed A, then every message
\* piece once in order; for an honest signature verified against the matching
\* key and message the verifier's h is the signer's h.
C9_ChallengeHashAgrees ==
    /\ sig # None =>
           sig.hash = sig.cap_r \o sig.ed_public_key \o Concat(sig.message)
    /\ (variant # BACKUP /\ ver # None /\ Len(ver.h) = 32) =>
           ver.hash = SubSeq(ver.signature, 1, 32)
                          \o edwards_compress(DecodedKey(ver.their_public_key, ver.signature))
                          \o Concat(ver.message)
    /\ (variant # BACKUP /\ HonestlyVerified) =>
           /\ ver.hash = sig.hash
           /\ ver.h = sig.h

\* C9 witness: an honest signature over a two-piece message has been verified
\* against the matching key in curve25519_verus.rs, and h was computed
C9_Witness ==
    /\ variant = VERUS
    /\ HonestlyVerified
    /\ Len(sig.message) = 2
    /\ Len(ver.h) = 32
    /\ Len(ver.hash) = 66

\* C10: each call of calculate_signature makes exactly one request to the random
\* source, for exactly 64 bytes.
C10_OneRequestOf64Bytes == sig # None => sig.requests = << 64 >>

(***************************************************************************)
(* scalar_verus.rs: Scalar, a struct holding 32 bytes                      *)
(***************************************************************************)

\* Scalar::reduce: the canonical representative modulo l
reduce(bytes) == ModL(bytes)

\* a faulty from_bytes_mod_order that returns the unreduced scalar
from_bytes_mod_order_unreduced(bytes) == bytes

\* Scalar::from_bytes_mod_order
from_bytes_mod_order(bytes) == reduce(bytes)

\* Scalar::is_canonical
is_canonical(bytes) == bytes = reduce(bytes)

\* a faulty from_canonical_bytes that tests the four high bits of byte 31
from_canonical_bytes_high_nibble(bytes) ==
    IF Shr(At(bytes, 31), 4) = 0 THEN [ some |-> bytes ] ELSE None

\* Scalar::from_canonical_bytes: Some(candidate) as [some |-> bytes], or None;
\* only the high bit is tested
from_canonical_bytes(bytes) ==
    LET high_bit_unset == Shr(At(bytes, 31), 7) = 0
        candidate == bytes
    IN IF high_bit_unset THEN [ some |-> candidate ] ELSE None

\* Scalar::from_bytes_mod_order_wide: the first 32 bytes, reduced
from_bytes_mod_order_wide(input) == from_bytes_mod_order(SubSeq(input, 1, 32))

\* Scalar::invert: a placeholder that returns the scalar 1
invert(bytes) == << 1 >> \o Fill(31, 0)

(***************************************************************************)
(* 32-byte inputs: q * l + d for every quotient q a 256-bit value can      *)
(* have and d in 0, 1, 2, l - 1; and byte patterns                         *)
(***************************************************************************)
\* number of start values and of step values of the byte patterns
NumPatterns == 6

Small32(d) == << d >> \o Fill(31, 0)

\* l - 1
LMinus1 == Put(L, 0, At(L, 0) - 1)

MultiplesOfL ==
    { SubSeq(r, 1, 32) :
        r \in { v \in { AddMul(d, L, q) :
                          q \in 0..15,
                          d \in { Small32(0), Small32(1), Small32(2), LMinus1 } } :
                v[33] = 0 } }

Patterns ==
    { Ramp(32, 255 - 51 * (a - 1), 43 * (b - 1)) : a \in 1..NumPatterns, b \in 1..NumPatterns }

\* with 2^255 - 1 and 2^256 - 1
ScalarInputs ==
    MultiplesOfL \cup Patterns \cup { Put(Fill(32, 255), 31, 127), Fill(32, 255) }

\* the value of 32 bytes is below l
BelowL(bytes) == NatLt(bytes, L)

(***************************************************************************)
(* The constructors of Scalar as pure functions                            *)
(***************************************************************************)
InitScalar ==
    /\ variant = LIBSIG
    /\ key = NoKey
    /\ sig = None
    /\ ver = None
    /\ fn_in \in ScalarInputs
    /\ fn_out = None

ApplyFromBytesModOrder ==
    /\ fn_out = None
    /\ fn_out' = [ fn |-> "from_bytes_mod_order", out |-> from_bytes_mod_order(fn_in) ]
    /\ UNCHANGED << variant, key, sig, ver, fn_in >>

ApplyFromCanonicalBytes ==
    /\ fn_out = None
    /\ fn_out' = [ fn |-> "from_canonical_bytes", out |-> from_canonical_bytes(fn_in) ]
    /\ UNCHANGED << variant, key, sig, ver, fn_in >>

ApplyInvert ==
    /\ fn_out = None
    /\ fn_out' = [ fn |-> "invert", out |-> invert(fn_in) ]
    /\ UNCHANGED << variant, key, sig, ver, fn_in >>

NextScalar == ApplyFromBytesModOrder \/ ApplyFromCanonicalBytes \/ ApplyInvert

SpecScalar == InitScalar /\ [][NextScalar]_vars

\* fn has been applied to fn_in
Applied(fn) == fn_out # None /\ fn_out.fn = fn

C12_CanonicalAccepted ==
    (Applied("from_canonical_bytes") /\ Bit(At(fn_in, 31), 7) = 0 /\ BelowL(fn_in)) =>
        fn_out.out = [ some |-> fn_in ]

\* C12 witness: from_canonical_bytes has been applied to l - 1 and returned it
C12_Witness ==
    /\ Applied("from_canonical_bytes")
    /\ fn_in = LMinus1
    /\ fn_out.out = [ some |-> LMinus1 ]

\* C13: for every 32-byte input b whose value is at least l or whose top bit is
\* set, from_canonical_bytes(b) returns None.
C13_NonCanonicalRejected ==
    (Applied("from_canonical_bytes") /\ (Bit(At(fn_in, 31), 7) = 1 \/ ~ BelowL(fn_in))) =>
        fn_out.out = None

\* C15: for every scalar s with nonzero value, s.invert() * s is congruent to 1
\* modulo l.
C15_InvertIsInverse ==
    (Applied("invert") /\ ModL(fn_in) # Small32(0)) =>
        MulMod(fn_out.out, fn_in) = Small32(1)

(***************************************************************************)
(* from_bytes_mod_order_wide as a pure function of 64 bytes                *)
(***************************************************************************)
\* number of low halves and of high halves of the 64-byte inputs
NumWideHalves == 8

\* the i-th 32-byte half: 0, 1, l - 1, l, then byte patterns
WideHalf(i) ==
    CASE i = 1 -> Small32(0)
      [] i = 2 -> Small32(1)
      [] i = 3 -> LMinus1
      [] i = 4 -> L
      [] OTHER -> Ramp(32, 29 * i, 7 * i)

WideInputs == { WideHalf(i) \o WideHalf(j) : i, j \in 1..NumWideHalves }

InitWide ==
    /\ variant = LIBSIG
    /\ key = NoKey
    /\ sig = None
    /\ ver = None
    /\ fn_in \in WideInputs
    /\ fn_out = None

ApplyFromBytesModOrderWide ==
    /\ fn_out = None
    /\ fn_out' = [ fn |-> "from_bytes_mod_order_wide", out |-> from_bytes_mod_order_wide(fn_in) ]
    /\ UNCHANGED << variant, key, sig, ver, fn_in >>

NextWide == ApplyFromBytesModOrderWide

SpecWide == InitWide /\ [][NextWide]_vars

\* C14: for every 64-byte input, from_bytes_mod_order_wide returns the scalar
\* congruent modulo l to the full 512-bit little-endian integer, so that the upper
\* 32 bytes contribute to the result.
C14_WideReduction ==
    Applied("from_bytes_mod_order_wide") => fn_out.out = ModLWide(fn_in)

(***************************************************************************)
(* non_adjacent_form.  A u64 is kept as its 8 little-endian bytes, an i8   *)
(* as an integer in -128..127.                                             *)
(***************************************************************************)
\* x as i8
AsI8(x) == LET m == x % 256 IN IF m >= 128 THEN m - 256 ELSE m

\* i8::wrapping_sub
wrapping_sub(a, b) == AsI8(a - b)

\* bit k of a u64; 0 outside 0..63
U64Bit(x, k) == IF k < 0 \/ k > 63 THEN 0 ELSE Bit(At(x, k \div 8), k % 8)

\* the n low bits of the u64 x >> s, and for negative s of x << -s
RECURSIVE ShiftedLow(_, _, _)
ShiftedLow(x, s, n) ==
    IF n = 0 THEN 0
    ELSE ShiftedLow(x, s, n - 1) + U64Bit(x, s + n - 1) * Pow2(n - 1)

\* x_u64: the four u64 read from the bytes, and x_u64[4] = 0
read_le_u64_into(bytes) ==
    IF Len(bytes) = 32
    THEN << SubSeq(bytes, 1, 8), SubSeq(bytes, 9, 16), SubSeq(bytes, 17, 24),
            SubSeq(bytes, 25, 32), Fill(8, 0) >>
    ELSE << >>

\* a faulty window that never reads the next u64
naf_window_one_u64(x_u64, w, pos) == ShiftedLow(At(x_u64, pos \div 64), pos % 64, w)

\* bit_buf & window_mask
naf_window(x_u64, w, pos) ==
    LET u64_idx == pos \div 64
        bit_idx == pos % 64
    IN IF bit_idx < 64 - w
       THEN ShiftedLow(At(x_u64, u64_idx), bit_idx, w)
       ELSE BitOr(ShiftedLow(At(x_u64, u64_idx), bit_idx, w),
                  ShiftedLow(At(x_u64, 1 + u64_idx), - (64 - bit_idx), w))

\* a faulty digit that is twice the window
naf_low_digit_doubled(window) == AsI8(2 * window)

\* the digit of a window in the lower half: window as i8
naf_low_digit(window) == AsI8(window)

\* a faulty digit that forgets to subtract the width
naf_high_digit_unsubtracted(window, width) == AsI8(window)

\* the digit of a window in the upper half
naf_high_digit(window, width) == wrapping_sub(AsI8(window), AsI8(width))

\* a faulty advance that moves on by one position after a digit
naf_advance_by_one(pos, w) == pos + 1

\* pos += w
naf_advance(pos, w) == pos + w

\* a faulty loop condition that lets position 256 in
naf_continues_at_256(pos) == pos <= 256

\* the condition of the while loop: pos < 256
naf_continues(pos) == pos < 256

\* one iteration of the while loop; nothing once pos has reached 256
naf_step(x_u64, w, st) ==
    IF ~ naf_continues(st.pos) THEN st
    ELSE LET width == Pow2(w)
             window == st.carry + naf_window(x_u64, w, st.pos)
         IN IF window % 2 = 0
            THEN [ st EXCEPT !.pos = @ + 1 ]
            ELSE IF window < width \div 2
            THEN [ pos |-> naf_advance(st.pos, w), carry |-> 0,
                   naf |-> Put(st.naf, st.pos, naf_low_digit(window)) ]
            ELSE [ pos |-> naf_advance(st.pos, w), carry |-> 1,
                   naf |-> Put(st.naf, st.pos, naf_high_digit(window, width)) ]

\* n iterations of the while loop
RECURSIVE naf_loop(_, _, _, _)
naf_loop(x_u64, w, st, n) ==
    IF n = 1 THEN naf_step(x_u64, w, st)
    ELSE LET mid == naf_loop(x_u64, w, st, n \div 2)
         IN IF Len(mid.naf) = 256 /\ mid.pos >= 0 /\ mid.carry >= 0
            THEN naf_loop(x_u64, w, mid, n - n \div 2)
            ELSE mid

\* Scalar::non_adjacent_form: the loop ends after at most 256 iterations
non_adjacent_form(bytes, w) ==
    naf_loop(read_le_u64_into(bytes), w, [ pos |-> 0, carry |-> 0, naf |-> Fill(256, 0) ], 256).naf

(***************************************************************************)
(* The integer that signed digits stand for, per digits to a byte          *)
(***************************************************************************)
RECURSIVE DigitSum(_, _, _, _)
DigitSum(digits, per, k, j) ==
    IF j = per THEN 0
    ELSE digits[per * k + j + 1] * Pow2((8 \div per) * j) + DigitSum(digits, per, k, j + 1)

RECURSIVE DigitsValueFrom(_, _, _, _, _)
DigitsValueFrom(digits, per, k, carry, acc) ==
    IF Len(acc) # k THEN << >>
    ELSE IF k = 32 THEN Append(acc, carry)
    ELSE LET t == carry + DigitSum(digits, per, k, 0)
         IN DigitsValueFrom(digits, per, k + 1, (t - (t % 256)) \div 256, Append(acc, t % 256))

\* 32 bytes and the carry out of them
DigitsValue(digits, per) == DigitsValueFrom(digits, per, 0, 0, << >>)

(***************************************************************************)
(* non_adjacent_form as a pure function of a scalar and a width            *)
(***************************************************************************)
\* `requires 2 <= w <= 8`
NafWidths == 2..8

ApplyNonAdjacentForm(w) ==
    /\ fn_out = None
    /\ fn_out' = [ fn |-> "non_adjacent_form", w |-> w, out |-> non_adjacent_form(fn_in, w) ]
    /\ UNCHANGED << variant, key, sig, ver, fn_in >>

NextNaf == \E w \in NafWidths : ApplyNonAdjacentForm(w)

SpecNaf == InitScalar /\ [][NextNaf]_vars

\* non_adjacent_form has been applied to a scalar below 2^255
NafOfScalar == Applied("non_adjacent_form") /\ Bit(At(fn_in, 31), 7) = 0

\* C16: for every scalar below 2^255 and every w in 2..8, the digits a_0..a_255
\* of non_adjacent_form(w) satisfy sum of a_i * 2^i = the scalar's value.
C16_NafValue ==
    NafOfScalar => DigitsValue(fn_out.out, 8) = fn_in \o << 0 >>

\* C16 witness: for 2^255 - 1 and w = 8 the carry of the first digit, -1, runs
\* through every bit and ends in the digit 1 at position 255
C16_Witness ==
    /\ NafOfScalar
    /\ fn_out.w = 8
    /\ fn_in = Put(Fill(32, 255), 31, 127)
    /\ fn_out.out[1] = -1
    /\ fn_out.out[256] = 1

\* C17: for every scalar below 2^255 and every w in 2..8, every nonzero digit of
\* non_adjacent_form(w) is odd and of magnitude below 2^(w-1).
C17_NafDigits ==
    NafOfScalar =>
        \A i \in 1..256 :
            fn_out.out[i] # 0 =>
                /\ fn_out.out[i] % 2 = 1
                /\ - Pow2(fn_out.w - 1) < fn_out.out[i]
                /\ fn_out.out[i] < Pow2(fn_out.w - 1)

\* C17 witness: for w = 8 a digit below -100, computed by the wrapping subtraction
C17_Witness ==
    /\ NafOfScalar
    /\ fn_out.w = 8
    /\ \E i \in 1..256 : fn_out.out[i] < -100

\* C18: for every scalar below 2^255 and every w in 2..8, among any w consecutive
\* digits of non_adjacent_form(w) at most one is nonzero.
C18_NafSpacing ==
    NafOfScalar =>
        \A i \in 1..(257 - fn_out.w) :
            Cardinality({ j \in i..(i + fn_out.w - 1) : fn_out.out[j] # 0 }) <= 1

\* C18 witness: two nonzero digits exactly w positions apart
C18_Witness ==
    /\ NafOfScalar
    /\ \E i \in 1..(256 - fn_out.w) : fn_out.out[i] # 0 /\ fn_out.out[i + fn_out.w] # 0

(***************************************************************************)
(* as_radix_16.  The i8 values stay within -8..24, so no operation wraps.  *)
(***************************************************************************)
\* x >> n on an i8 (arithmetic shift)
ShrI8(x, n) == (x - (x % Pow2(n))) \div Pow2(n)

\* (self.bytes[i] >> 0) & 15
radix_bot_half(byte) == BitAnd(Shr(byte, 0), 15)

\* a faulty top half that forgets the shift
radix_top_half_unshifted(byte) == BitAnd(byte, 15)

\* (self.bytes[i] >> 4) & 15
radix_top_half(byte) == BitAnd(Shr(byte, 4), 15)

\* step 1: output[2 * i] and output[2 * i + 1] for i in 0..32
radix_nibbles(bytes) ==
    SubSeq([ k \in 1..64 |->
               IF k % 2 = 1 THEN radix_bot_half(At(bytes, (k - 1) \div 2))
               ELSE radix_top_half(At(bytes, (k - 1) \div 2)) ], 1, 64)

\* a faulty carry that rounds down
radix_carry_floor(digit) == ShrI8(digit, 4)

\* (output[i] + 8) >> 4
radix_carry(digit) == ShrI8(digit + 8, 4)

\* step 2, one iteration
radix_step(output, i) ==
    LET carry == radix_carry(At(output, i))
    IN [ output EXCEPT ![i + 1] = @ - carry * 16, ![i + 2] = @ + carry ]

\* step 2, the iterations i, i + 1, .., i + n - 1
RECURSIVE radix_recenter(_, _, _)
radix_recenter(output, i, n) ==
    IF n = 1 THEN radix_step(output, i)
    ELSE LET mid == radix_recenter(output, i, n \div 2)
         IN IF Len(mid) = 64
            THEN radix_recenter(mid, i + n \div 2, n - n \div 2)
            ELSE mid

\* Scalar::as_radix_16
as_radix_16(bytes) == radix_recenter(radix_nibbles(bytes), 0, 63)

ApplyAsRadix16 ==
    /\ fn_out = None
    /\ fn_out' = [ fn |-> "as_radix_16", out |-> as_radix_16(fn_in) ]
    /\ UNCHANGED << variant, key, sig, ver, fn_in >>

NextRadix == ApplyAsRadix16

SpecRadix == InitScalar /\ [][NextRadix]_vars

\* as_radix_16 has been applied to a scalar below 2^255
RadixOfScalar == Applied("as_radix_16") /\ Bit(At(fn_in, 31), 7) = 0

\* C19: for every scalar below 2^255, the 64 digits a_0..a_63 of as_radix_16
\* satisfy sum of a_i * 16^i = the scalar's value.
C19_RadixValue ==
    RadixOfScalar => DigitsValue(fn_out.out, 2) = fn_in \o << 0 >>

\* C19 witness: as_radix_16 of l - 1, with negative digits
C19_Witness ==
    /\ RadixOfScalar
    /\ fn_in = LMinus1
    /\ \E i \in 1..64 : fn_out.out[i] < 0

\* C20: for every scalar below 2^255, as_radix_16 returns -8 <= a_i < 8 for
\* 0 <= i < 63 and -8 <= a_63 <= 8; with the top bit of byte 31 set the last digit
\* can exceed 8, as it does for 2^256 - 1.
C20_RadixRange ==
    /\ RadixOfScalar =>
           /\ \A i \in 1..63 : -8 <= fn_out.out[i] /\ fn_out.out[i] < 8
           /\ -8 <= fn_out.out[64] /\ fn_out.out[64] <= 8
    /\ (Applied("as_radix_16") /\ fn_in = Fill(32, 255)) => fn_out.out[64] > 8

\* C20 witness: for 2^255 - 1 the last digit is 8, the largest the claim allows
C20_Witness ==
    /\ RadixOfScalar
    /\ fn_in = Put(Fill(32, 255), 31, 127)
    /\ fn_out.out[64] = 8
    /\ fn_out.out[1] = -1

(***************************************************************************)
(* Key agreement                                                           *)
(***************************************************************************)
\* StaticSecret::diffie_hellman: the u-coordinate of clamp(secret) * P for the
\* point P with u-coordinate pubkey; all zero for a pubkey that is not the
\* u-coordinate of a point of the group
static_secret_diffie_hellman(secret, pubkey) ==
    LET point == montgomery_to_edwards(pubkey, 0)
    IN IF point = None THEN Zeros(AGREEMENT_LENGTH)
       ELSE MontgomeryU(Point(MulMod(ModL(scalar_clamp_integer(secret)), point.log)))

shared_secret_as_bytes(shared) == shared

\* a faulty calculate_agreement that hands back the peer's public key
calculate_agreement_echo(v, secret, their_public_key) == their_public_key

\* PrivateKey::calculate_agreement; a placeholder in VERUS and BACKUP
calculate_agreement(v, secret, their_public_key) ==
    IF v = LIBSIG
    THEN LET pubkey == public_key_from_bytes(their_public_key)
             shared == static_secret_diffie_hellman(secret, pubkey)
         IN shared_secret_as_bytes(shared)
    ELSE Fill(AGREEMENT_LENGTH, 0)

\* number of byte strings the two parties make their keys from
NumAgreeKeys == 4

AgreeKeyInput(i) == Ramp(32, 71 * i, 13 * i + 1)
AgreeKeyInputs == { AgreeKeyInput(i) : i \in 1..NumAgreeKeys }

\* two parties: key is the private key of a, fn_in the private key of b, fn_out
\* the agreements computed so far
InitAgree ==
    /\ variant \in Variants
    /\ key = NoKey
    /\ sig = None
    /\ ver = None
    /\ fn_in = NoKey
    /\ fn_out = [ a |-> << >>, b |-> << >> ]

\* a = PrivateKey::from(private_key)
FromA(private_key) ==
    /\ key = NoKey
    /\ key' = PrivateKey_from(variant, private_key)
    /\ UNCHANGED << variant, sig, ver, fn_in, fn_out >>

\* b = PrivateKey::from(private_key)
FromB(private_key) ==
    /\ fn_in = NoKey
    /\ fn_in' = PrivateKey_from(variant, private_key)
    /\ UNCHANGED << variant, key, sig, ver, fn_out >>

\* a.calculate_agreement(&b.derive_public_key_bytes())
AgreeA ==
    /\ key # NoKey /\ fn_in # NoKey
    /\ fn_out.a = << >>
    /\ fn_out' = [ fn_out EXCEPT
                     !.a = calculate_agreement(variant, key, derive_public_key_bytes(variant, fn_in)) ]
    /\ UNCHANGED << variant, key, sig, ver, fn_in >>

\* b.calculate_agreement(&a.derive_public_key_bytes())
AgreeB ==
    /\ key # NoKey /\ fn_in # NoKey
    /\ fn_out.b = << >>
    /\ fn_out' = [ fn_out EXCEPT
                     !.b = calculate_agreement(variant, fn_in, derive_public_key_bytes(variant, key)) ]
    /\ UNCHANGED << variant, key, sig, ver, fn_in >>

NextAgree ==
    \/ \E private_key \in AgreeKeyInputs : FromA(private_key)
    \/ \E private_key \in AgreeKeyInputs : FromB(private_key)
    \/ AgreeA
    \/ AgreeB

SpecAgree == InitAgree /\ [][NextAgree]_vars

\* C21: key agreement is symmetric: for any two private keys a and b,
\* a.calculate_agreement(b.derive_public_key_bytes()) equals
\* b.calculate_agreement(a.derive_public_key_bytes()) (libsig_curve25519_verus.rs
\* and curve25519_verus.rs).
C21_AgreementSymmetric ==
    (variant \in { LIBSIG, VERUS } /\ fn_out.a # << >> /\ fn_out.b # << >>) =>
        fn_out.a = fn_out.b

\* C21 witness: two different keys of libsig_curve25519_verus.rs have computed the
\* same agreement, which is not all zero
C21_Witness ==
    /\ variant = LIBSIG
    /\ key # fn_in
    /\ fn_out.a # << >>
    /\ fn_out.a = fn_out.b
    /\ fn_out.a # Zeros(AGREEMENT_LENGTH)
    /\ Len(fn_out.a) = AGREEMENT_LENGTH

(***************************************************************************)
(* subtle_verus.rs: conditional_select.  A u32 and a u64 are kept as their *)
(* 4 and 8 little-endian bytes, a Choice as its value.                     *)
(***************************************************************************)
\* !x on a u8
BitNot(x) == 255 - x

\* &, | and ! on u32 and u64, byte by byte
WordAnd(a, b) == SubSeq([ i \in 1..Len(a) |-> BitAnd(a[i], b[i]) ], 1, Len(a))
WordOr(a, b) == SubSeq([ i \in 1..Len(a) |-> BitOr(a[i], b[i]) ], 1, Len(a))
WordNot(a) == SubSeq([ i \in 1..Len(a) |-> BitNot(a[i]) ], 1, Len(a))

\* u32::MAX and u64::MAX
U32_MAX == Fill(4, 255)
U64_MAX == Fill(8, 255)

\* a faulty selection that forgets to negate the mask
conditional_select_u64_unnegated(a, b, choice) ==
    LET mask == IF choice = 1 THEN U64_MAX ELSE Fill(8, 0)
    IN WordOr(WordAnd(a, mask), WordAnd(b, mask))

\* impl ConditionallySelectable for u64
conditional_select_u64(a, b, choice) ==
    LET mask == IF choice = 1 THEN U64_MAX ELSE Fill(8, 0)
    IN WordOr(WordAnd(a, mask), WordAnd(b, WordNot(mask)))

\* impl ConditionallySelectable for u32
conditional_select_u32(a, b, choice) ==
    LET mask == IF choice = 1 THEN U32_MAX ELSE Fill(4, 0)
    IN WordOr(WordAnd(a, mask), WordAnd(b, WordNot(mask)))

\* impl ConditionallySelectable for u8
conditional_select_u8(a, b, choice) ==
    LET mask == IF choice = 1 THEN 255 ELSE 0
    IN BitOr(BitAnd(a, mask), BitAnd(b, BitNot(mask)))

\* impl ConditionallySelectable for [u64; N]: element by element
conditional_select_array(a, b, choice) ==
    SubSeq([ i \in 1..Len(a) |-> conditional_select_u64(a[i], b[i], choice) ], 1, Len(a))

\* the values Choice::from accepts
Choices == { 0, 1 }

\* the number of values of each type, and of [u64; N] the largest N
NumSelectValues == 5
MaxArrayLen == 3

\* the i-th word of n bytes: 42 and 100 (the values of test_conditional_select),
\* all ones, then byte patterns
SelectWord(n, i) ==
    CASE i = 1 -> << 42 >> \o Fill(n - 1, 0)
      [] i = 2 -> << 100 >> \o Fill(n - 1, 0)
      [] i = 3 -> Fill(n, 255)
      [] OTHER -> Ramp(n, 85 * i, 51 * i)

SelectWords(n) == { SelectWord(n, i) : i \in 1..NumSelectValues }

\* [u64; N] for N up to MaxArrayLen: N consecutive words
SelectArrays ==
    { SubSeq([ k \in 1..n |-> SelectWord(8, ((i + k) % NumSelectValues) + 1) ], 1, n) :
        n \in 0..MaxArrayLen, i \in 1..2 }

\* the inputs of each implementation
SelectInputsU8 ==
    { [ ty |-> "u8", a |-> a[1], b |-> b[1], choice |-> c ] :
        a \in SelectWords(1), b \in SelectWords(1), c \in Choices }

SelectInputsU32 ==
    { [ ty |-> "u32", a |-> a, b |-> b, choice |-> c ] :
        a \in SelectWords(4), b \in SelectWords(4), c \in Choices }

SelectInputsU64 ==
    { [ ty |-> "u64", a |-> a, b |-> b, choice |-> c ] :
        a \in SelectWords(8), b \in SelectWords(8), c \in Choices }

SelectInputsArray ==
    { [ ty |-> "array", a |-> p[1], b |-> p[2], choice |-> c ] :
        p \in { q \in SelectArrays \X SelectArrays : Len(q[1]) = Len(q[2]) }, c \in Choices }

InitSelect ==
    /\ variant = LIBSIG
    /\ key = NoKey
    /\ sig = None
    /\ ver = None
    /\ \/ fn_in \in SelectInputsU8
       \/ fn_in \in SelectInputsU32
       \/ fn_in \in SelectInputsU64
       \/ fn_in \in SelectInputsArray
    /\ fn_out = None

ApplySelectU8 ==
    /\ fn_out = None /\ fn_in.ty = "u8"
    /\ fn_out' = [ fn |-> "conditional_select",
                   out |-> conditional_select_u8(fn_in.a, fn_in.b, fn_in.choice) ]
    /\ UNCHANGED << variant, key, sig, ver, fn_in >>

ApplySelectU32 ==
    /\ fn_out = None /\ fn_in.ty = "u32"
    /\ fn_out' = [ fn |-> "conditional_select",
                   out |-> conditional_select_u32(fn_in.a, fn_in.b, fn_in.choice) ]
    /\ UNCHANGED << variant, key, sig, ver, fn_in >>

ApplySelectU64 ==
    /\ fn_out = None /\ fn_in.ty = "u64"
    /\ fn_out' = [ fn |-> "conditional_select",
                   out |-> conditional_select_u64(fn_in.a, fn_in.b, fn_in.choice) ]
    /\ UNCHANGED << variant, key, sig, ver, fn_in >>

ApplySelectArray ==
    /\ fn_out = None /\ fn_in.ty = "array"
    /\ fn_out' = [ fn |-> "conditional_select",
                   out |-> conditional_select_array(fn_in.a, fn_in.b, fn_in.choice) ]
    /\ UNCHANGED << variant, key, sig, ver, fn_in >>

NextSelect == ApplySelectU8 \/ ApplySelectU32 \/ ApplySelectU64 \/ ApplySelectArray

SpecSelect == InitSelect /\ [][NextSelect]_vars

\* C22: for u8, u32, u64 and [u64; N], conditional_select(a, b, choice) returns a
\* when choice.value is 1 and b when it is 0, for all a and b (element-wise
\* for arrays).
C22_ConditionalSelect ==
    Applied("conditional_select") =>
        fn_out.out = (IF fn_in.choice = 1 THEN fn_in.a ELSE fn_in.b)

\* C22 witness: the selections of test_conditional_select (a = 42, b = 100 as
\* u64) have been made, and one of two different arrays of three elements
C22_Witness ==
    /\ Applied("conditional_select")
    /\ \/ /\ fn_in.ty = "u64"
          /\ fn_in.a = SelectWord(8, 1) /\ fn_in.b = SelectWord(8, 2)
          /\ fn_in.choice = 0
          /\ fn_out.out = << 100, 0, 0, 0, 0, 0, 0, 0 >>
       \/ /\ fn_in.ty = "array"
          /\ Len(fn_in.a) = 3 /\ fn_in.a # fn_in.b
          /\ fn_in.choice = 1
          /\ fn_out.out = fn_in.a

(***************************************************************************)
(* Messages as lists of pieces                                             *)
(***************************************************************************)
\* the other piece lists on offer that concatenate to the same bytes as message
SameConcat(message) == { m \in Messages : m # message /\ Concat(m) = Concat(message) }

\* C23: signing and verification depend on the message only through the
\* concatenation of its pieces in order: two piece lists with the same
\* concatenation yield the same signature for the same key and randomness (looked
\* at when the signature is returned), and the same verify_signature result for
\* the same key and signature.
C23_MessageIsItsConcatenation ==
    /\ (sig # None /\ ver = None) =>
           \A m \in SameConcat(sig.message) :
               calculate_signature(variant, key, m, sig.random_bytes).result = sig.result
    /\ ver # None =>
           \A m \in SameConcat(ver.message) :
               verify_signature(variant, ver.their_public_key, m, ver.signature).result = ver.result

\* C23 witness: libsig_curve25519_verus.rs has signed the pieces (1), (2) and
\* accepted the signature for the single piece (1, 2)
C23_Witness ==
    /\ variant = LIBSIG
    /\ sig # None /\ ver # None
    /\ sig.message = << << 1 >>, << 2 >> >>
    /\ ver.message = << << 1, 2 >> >>
    /\ ver.signature = sig.result
    /\ ver.result = TRUE

\* C24: a signature whose s has bit 253 or 254 set (bit 5 or 6 of byte 63) is
\* rejected by verify_signature before any point arithmetic: no conversion from
\* Montgomery to Edwards, compression, negation or scalar multiplication has been
\* called (libsig_curve25519_verus.rs and curve25519_verus.rs).
C24_RejectedBeforePointArithmetic ==
    ( /\ variant \in { LIBSIG, VERUS }
      /\ ver # None
      /\ (Bit(At(ver.signature, 63), 6) = 1 \/ Bit(At(ver.signature, 63), 5) = 1) ) =>
        /\ ver.result = FALSE
        /\ ver.calls = << >>

(***************************************************************************)
(* One signature offered with other messages: a bit flipped, a byte        *)
(* appended, a byte dropped, nothing                                       *)
(***************************************************************************)
OtherMessages ==
    { << << 1, 2 >> >>, << << 1, 3 >> >>, << << 1, 2 >>, << 0 >> >>, << << 1 >> >>, << >> }

NextMessages ==
    \/ \E private_key \in KeyInputs : From(private_key)
    \/ \E message \in OtherMessages, random_bytes \in Randoms : Sign(message, random_bytes)
    \/ \E their_public_key \in PublicKeys, message \in OtherMessages :
           Verify(their_public_key, message, "asis")

SpecMessages == Init /\ [][NextMessages]_vars

\* C25: a signature produced by calculate_signature over message M does not
\* verify over a different message: with the signer's public key and the
\* signature as returned, verify_signature returns false for every message
\* whose bytes differ from those of M.
C25_OtherMessageRejected ==
    ( /\ sig # None /\ ver # None
      /\ ver.signature = sig.result
      /\ ver.their_public_key = X25519Public(key)
      /\ Concat(ver.message) # Concat(sig.message) ) =>
        ver.result = FALSE

\* C25 witness: libsig_curve25519_verus.rs has signed (1, 2) and, given the
\* signer's key and the message (1, 3), which differs in one bit, has compared
\* the recomputed R and refused
C25_Witness ==
    /\ variant = LIBSIG
    /\ sig # None /\ ver # None
    /\ sig.message = << << 1, 2 >> >>
    /\ ver.message = << << 1, 3 >> >>
    /\ ver.signature = sig.result
    /\ ver.their_public_key = derive_public_key_bytes(variant, key)
    /\ Len(ver.cap_r_check) = 32
    /\ ver.result = FALSE

\* C26: in every signature calculate_signature produces, s = h * a + r is reduced
\* (below l), so bits 5, 6 and 7 of byte 31 of s are 0 before the sign bit is
\* written: the s that verify_signature reads back is s unchanged, and its range
\* check does not reject the signature as returned.
C26_HonestSInRange ==
    /\ sig # None =>
           /\ BelowL(sig.s)
           /\ BitAnd(At(sig.s, 31), 224) = 0
           /\ signature_s(sig.result) = sig.s
           /\ ~ s_out_of_range(signature_s(sig.result))
    /\ (variant # BACKUP /\ sig # None /\ ver # None /\ ver.signature = sig.result) =>
           ver.calls # << "montgomery_to_edwards", "edwards_compress" >>

\* C26 witness: a signature whose sign bit is set has been returned and, offered
\* as it is to verify_signature of libsig_curve25519_verus.rs, has passed the
\* range check with its s unchanged
C26_Witness ==
    /\ variant = LIBSIG
    /\ sig # None /\ ver # None
    /\ sig.sign_bit = 128
    /\ Bit(At(sig.result, 63), 7) = 1
    /\ ver.signature = sig.result
    /\ ver.s = sig.s
    /\ Len(ver.calls) > 2

NumPackValues == 6

\* the i-th R: any 32 bytes
PackR(i) == Ramp(32, 40 * i, 19 * i + 128)

\* the i-th s: any 32 bytes with bit 7 of byte 31 clear
PackS(i) ==
    LET bytes == Ramp(32, 255 - 9 * i, 57 * i)
    IN Put(bytes, 31, At(bytes, 31) % 128)

PackInputs ==
    { [ cap_r |-> PackR(i), s |-> PackS(j), sign_bit |-> b ] :
        i \in 1..NumPackValues, j \in 1..NumPackValues, b \in { 0, 128 } }

InitPack ==
    /\ variant = LIBSIG
    /\ key = NoKey
    /\ sig = None
    /\ ver = None
    /\ fn_in \in PackInputs
    /\ fn_out = None

\* the result array is assembled
Pack ==
    /\ fn_out = None
    /\ fn_out' = [ fn |-> "pack", result |-> signature_bytes(fn_in.cap_r, fn_in.s, fn_in.sign_bit) ]
    /\ UNCHANGED << variant, key, sig, ver, fn_in >>

\* the verifier takes the array apart
Parse ==
    /\ Applied("pack")
    /\ fn_out' = [ fn |-> "parse",
                   result |-> fn_out.result,
                   sign |-> sign_argument(fn_out.result),
                   cap_r |-> signature_cap_r(fn_out.result),
                   s |-> signature_s(fn_out.result) ]
    /\ UNCHANGED << variant, key, sig, ver, fn_in >>

NextPack == Pack \/ Parse

SpecPack == InitPack /\ [][NextPack]_vars

\* C28: for any 32 bytes R, any 32 bytes s with bit 7 of byte 31 clear and any
\* sign bit, the verifier's parsing of the 64 bytes assembled as in
\* calculate_signature recovers exactly R, exactly s and the sign bit as 0 or 1.
C28_PackParseRoundTrip ==
    Applied("parse") =>
        /\ fn_out.cap_r = fn_in.cap_r
        /\ fn_out.s = fn_in.s
        /\ fn_out.sign = fn_in.sign_bit \div 128

\* C28 witness: a signature with the sign bit set, an s with bits 5 and 6 of
\* byte 31 set and an R with bit 7 of byte 31 set has been packed and parsed
C28_Witness ==
    /\ Applied("parse")
    /\ fn_in.sign_bit = 128
    /\ fn_out.sign = 1
    /\ At(fn_out.result, 63) >= 128
    /\ At(fn_in.s, 31) >= 96
    /\ At(fn_in.cap_r, 31) >= 128
    /\ fn_out.s = fn_in.s

\* C29: clamp_integer changes only the low 3 bits of byte 0 and the top 2 bits of
\* byte 31: bytes 1..30, bits 3..7 of byte 0 and bits 0..5 of byte 31 of the
\* result equal those of the input, so clamping the result again returns it
\* unchanged (both copies of clamp_integer).
C29_ClampFrame ==
    fn_out # None =>
        /\ \A i \in 1..30 : At(fn_out.out, i) = At(fn_in, i)
        /\ Shr(At(fn_out.out, 0), 3) = Shr(At(fn_in, 0), 3)
        /\ At(fn_out.out, 31) % 64 = At(fn_in, 31) % 64
        /\ fn_out.out = (IF fn_out.fn = "clamp_integer" THEN clamp_integer(fn_out.out)
                         ELSE scalar_clamp_integer(fn_out.out))

\* C29 witness: scalar_verus.rs clamp_integer has changed byte 0 and byte 31 of
\* an input and kept bit 3 of byte 0 and bit 5 of byte 31, which were set
C29_Witness ==
    /\ fn_out # None
    /\ fn_out.fn = "scalar::clamp_integer"
    /\ At(fn_out.out, 0) # At(fn_in, 0)
    /\ At(fn_out.out, 31) # At(fn_in, 31)
    /\ Bit(At(fn_in, 0), 3) = 1 /\ Bit(At(fn_out.out, 0), 3) = 1
    /\ Bit(At(fn_in, 31), 5) = 1 /\ Bit(At(fn_out.out, 31), 5) = 1

(***************************************************************************)
(* The main loop of non_adjacent_form, one iteration at a time, with the   *)
(* accesses each iteration makes                                           *)
(***************************************************************************)
\* the indices into x_u64 that the iteration at pos reads, in order
naf_limbs(w, pos) ==
    LET u64_idx == pos \div 64
        bit_idx == pos % 64
    IN IF bit_idx < 64 - w THEN << u64_idx >> ELSE << u64_idx, 1 + u64_idx >>

\* the amounts the iteration at pos shifts by, in order
naf_shifts(w, pos) ==
    LET bit_idx == pos % 64
    IN IF bit_idx < 64 - w THEN << bit_idx >> ELSE << bit_idx, 64 - bit_idx >>

\* the indices into naf that the iteration writes: pos, for an odd window
naf_writes(x_u64, w, st) ==
    IF (st.carry + naf_window(x_u64, w, st.pos)) % 2 = 0 THEN << >> ELSE << st.pos >>

\* number of byte patterns among the scalars the loop is run on
NumLoopPatterns == 3

\* 0, 1, l - 1, 2^255 - 1, 2^256 - 1 and byte patterns, with and without the top bit
NafLoopInputs ==
    { Small32(0), Small32(1), LMinus1, Put(Fill(32, 255), 31, 127), Fill(32, 255) }
        \cup { Ramp(32, 97 * i, 59 * i + 1) : i \in 1..NumLoopPatterns }

InitNafLoop ==
    /\ variant = LIBSIG
    /\ key = NoKey
    /\ sig = None
    /\ ver = None
    /\ fn_in \in NafLoopInputs
    /\ fn_out = None

\* non_adjacent_form(w) up to the loop: naf, x_u64, pos and carry are set up
NafEnter(w) ==
    /\ fn_out = None
    /\ fn_out' = [ fn |-> "naf_loop", w |-> w, pos |-> 0, carry |-> 0, naf |-> Fill(256, 0),
                   iterations |-> 0, limbs |-> << >>, shifts |-> << >>, writes |-> << >> ]
    /\ UNCHANGED << variant, key, sig, ver, fn_in >>

\* one iteration of the loop
NafIterate ==
    /\ Applied("naf_loop")
    /\ naf_continues(fn_out.pos)
    /\ LET x_u64 == read_le_u64_into(fn_in)
           st == [ pos |-> fn_out.pos, carry |-> fn_out.carry, naf |-> fn_out.naf ]
           next == naf_step(x_u64, fn_out.w, st)
       IN fn_out' = [ fn |-> "naf_loop", w |-> fn_out.w,
                      pos |-> next.pos, carry |-> next.carry, naf |-> next.naf,
                      iterations |-> fn_out.iterations + 1,
                      limbs |-> naf_limbs(fn_out.w, fn_out.pos),
                      shifts |-> naf_shifts(fn_out.w, fn_out.pos),
                      writes |-> naf_writes(x_u64, fn_out.w, st) ]
    /\ UNCHANGED << variant, key, sig, ver, fn_in >>

NextNafLoop == (\E w \in NafWidths : NafEnter(w)) \/ NafIterate

\* the loop runs on: an iteration that can be made is made
SpecNafLoop == InitNafLoop /\ [][NextNafLoop]_vars /\ WF_vars(NafIterate)

\* every access of the last iteration is in bounds
NafInBounds ==
    Applied("naf_loop") =>
        /\ \A i \in 1..Len(fn_out.limbs) : fn_out.limbs[i] \in 0..4
        /\ \A i \in 1..Len(fn_out.shifts) : fn_out.shifts[i] \in 0..63
        /\ \A i \in 1..Len(fn_out.writes) : fn_out.writes[i] \in 0..255
        /\ fn_out.iterations <= 256

\* the loop has been left
NafLeft == Applied("naf_loop") /\ ~ naf_continues(fn_out.pos)

\* C30: for every 32-byte scalar (top bit set or not) and every w in 2..8, the
\* main loop of non_adjacent_form terminates and every access is in bounds: the
\* limb index 1 + pos/64 never exceeds 4, the digit index pos is at most 255
\* when written, and the shift amounts bit_idx and 64 - bit_idx stay within 0..63.
C30_NafLoopSafe == [] NafInBounds /\ (Applied("naf_loop") ~> NafLeft)

\* C30 witness: for a scalar with the top bit set and w = 8 the iteration at
\* position 249 has read x_u64[3] and x_u64[4], shifted by 57 and 7, written
\* naf[249] and left the loop at position 257
C30_Witness ==
    /\ NafLeft
    /\ At(fn_in, 31) >= 128
    /\ fn_out.w = 8
    /\ fn_out.limbs = << 3, 4 >>
    /\ fn_out.shifts = << 57, 7 >>
    /\ fn_out.writes = << 249 >>
    /\ fn_out.pos = 257

====
